---- MODULE Spec2Model ----
(***************************************************************************)
(* Model of the PostgreSQL adapter of guam-adapters (postgresql/postgres.go *)
(* and its helper file): identifier escaping, the reflection-based         *)
(* prepared-statement helper, statement construction, and the CRUD and      *)
(* transactional operations of postgresAdapterImpl, run against a small     *)
(* relational store.                                                        *)
(*                                                                          *)
(* Text is modelled as a sequence of lexical tokens: a word (a run of       *)
(* characters other than '.' and '"'), the separator ".", or the quote.     *)
(* The empty string is the empty sequence.                                  *)
(***************************************************************************)
EXTENDS Integers, Sequences, FiniteSets, TLC

\* ------------------------------------------------------------------------
\* Bounds of the model
\* ------------------------------------------------------------------------

\* Largest number of fields of a record type given to the statement helper.
MaxFields == 3

\* Largest number of tokens of an identifier given to EscapeName.
MaxNameLen == 3

\* ------------------------------------------------------------------------
\* Text and identifiers
\* ------------------------------------------------------------------------

EscapeChar == "\""

Contains(val, tok) == \E i \in 1..Len(val) : val[i] = tok

\* A plausible slip: the schema-qualified name is quoted like any other.
EscapeNameAlways(val) == <<EscapeChar>> \o val \o <<EscapeChar>>

\* A plausible slip: a name already inside quotes is taken as escaped.
EscapeNameOnce(val) ==
    IF Contains(val, ".") THEN val
    ELSE IF Len(val) >= 2 /\ val[1] = EscapeChar /\ val[Len(val)] = EscapeChar
    THEN val
    ELSE <<EscapeChar>> \o val \o <<EscapeChar>>

EscapeName(val) ==
    IF Contains(val, ".") THEN val
    ELSE <<EscapeChar>> \o val \o <<EscapeChar>>

\* fmt.Sprintf("$%d", index+1): the ordinal placeholder text for a 0-based index.
PgPlaceholder(index) == <<"$", index + 1>>

\* ------------------------------------------------------------------------
\* The prepared-statement helper
\* ------------------------------------------------------------------------

\* A record type is the sequence of the db tags of its fields in declaration
\* order ("" for a field without a tag); a record value is the sequence of
\* the field values.  Go's field index i is 0-based: field i is rtype[i+1].

\* The placeholder function given to the helper is always the adapter's:
\* all three helpers are created with it.
RECURSIVE HelperLoop(_, _, _, _)
HelperLoop(rtype, values, i, acc) ==
    IF i >= Len(rtype) THEN acc
    ELSE LET tag == rtype[i + 1] IN
         IF tag = "" \/ tag = "-"
         THEN HelperLoop(rtype, values, i + 1, acc)
         ELSE HelperLoop(rtype, values, i + 1,
                  [fields       |-> Append(acc.fields, EscapeName(<<tag>>)),
                   placeholders |-> Append(acc.placeholders, PgPlaceholder(i)),
                   args         |-> Append(acc.args, values[i + 1])])

CreatePreparedStatementHelper(rtype, values) ==
    HelperLoop(rtype, values, 0,
               [fields |-> <<>>, placeholders |-> <<>>, args |-> <<>>])

\* GetSetArgs joins "field = placeholder" pairs; the joined text is kept as
\* the sequence of the pairs.
GetSetArgs(fields, placeholders) ==
    [i \in 1..Len(fields) |-> [col |-> fields[i], ph |-> placeholders[i]]]

\* ------------------------------------------------------------------------
\* The relational store behind the database handle (pgx.Conn)
\* ------------------------------------------------------------------------

NULL == "NULL"
NoErr == "nil"
ErrConn == "ErrConn"          \* connectivity loss, any statement may hit it
ErrSQL == "ErrSQL"            \* the statement text or its binding is rejected
ErrUnique == "ErrUnique"      \* primary-key violation
ErrTxClosed == "ErrTxClosed"  \* pgx.ErrTxClosed: Rollback after Commit

UserIds == {"u1", "u2"}
KeyIds == {"k1"}
SessionIds == {"s1"}
Usernames == {"ann"}
Passwords == {"pw"}
Expiries == {"t1"}

\* The tables of the database, by canonical name, and their columns.
TblUser == <<"auth_user">>
TblSession == <<"user_session">>
TblKey == <<"public", ".", "user_key">>
TableNames == {TblUser, TblSession, TblKey}

Columns(t) ==
    IF t = TblSession THEN {"id", "user_id", "active_expires", "idle_expires"}
    ELSE IF t = TblKey THEN {"id", "user_id", "hashed_password"}
    ELSE {"id", "username"}

\* The table or column an identifier of a statement names; <<>> when the
\* text is no identifier (a zero-length quoted identifier, nested quotes).
Resolve(ident) ==
    IF Len(ident) = 3 /\ ident[1] = EscapeChar /\ ident[3] = EscapeChar
       /\ ident[2] \notin {EscapeChar, "."}
    THEN <<ident[2]>>
    ELSE IF Len(ident) >= 1 /\ ~Contains(ident, EscapeChar) THEN ident
    ELSE <<>>

ColumnOf(ident) ==
    LET r == Resolve(ident) IN IF Len(r) = 1 THEN r[1] ELSE ""

PhIndex(ph) == ph[2]

\* The parameters of a statement are $1..$n for the n arguments supplied.
ParamsOk(phs, args) ==
    /\ \A i \in 1..Len(phs) : PhIndex(phs[i]) \in 1..Len(args)
    /\ \A k \in 1..Len(args) : \E i \in 1..Len(phs) : PhIndex(phs[i]) = k

ColumnsOk(t, cols) ==
    /\ \A i \in 1..Len(cols) : ColumnOf(cols[i]) \in Columns(t)
    /\ \A i, j \in 1..Len(cols) : ColumnOf(cols[i]) = ColumnOf(cols[j]) => i = j

RowsWhere(d, t, col, v) == {r \in d[t] : r[col] = v}

RECURSIVE SetToSeq(_)
SetToSeq(S) ==
    IF S = {} THEN <<>>
    ELSE LET x == CHOOSE y \in S : TRUE IN <<x>> \o SetToSeq(S \ {x})

InsertedRow(t, s) ==
    [c \in Columns(t) |->
        IF \E i \in 1..Len(s.fields) : ColumnOf(s.fields[i]) = c
        THEN s.args[PhIndex(s.placeholders[
                 CHOOSE i \in 1..Len(s.fields) : ColumnOf(s.fields[i]) = c])]
        ELSE NULL]

UpdatedRow(r, s) ==
    [c \in DOMAIN r |->
        IF \E i \in 1..Len(s.set) : ColumnOf(s.set[i].col) = c
        THEN s.args[PhIndex(s.set[
                 CHOOSE i \in 1..Len(s.set) : ColumnOf(s.set[i].col) = c].ph)]
        ELSE r[c]]

SetCols(s) == [i \in 1..Len(s.set) |-> s.set[i].col]
SetPhs(s) == [i \in 1..Len(s.set) |-> s.set[i].ph]

\* The error, if any, with which the store rejects statement s in state d.
StmtError(d, s) ==
    LET t == Resolve(s.table) IN
    IF t \notin TableNames THEN ErrSQL
    ELSE IF s.kind = "INSERT" THEN
        IF Len(s.fields) = 0 \/ Len(s.fields) # Len(s.placeholders)
           \/ ~ColumnsOk(t, s.fields) \/ ~ParamsOk(s.placeholders, s.args)
        THEN ErrSQL
        ELSE IF InsertedRow(t, s).id = NULL
                \/ RowsWhere(d, t, "id", InsertedRow(t, s).id) # {}
        THEN ErrUnique
        ELSE NoErr
    ELSE IF s.kind = "UPDATE" THEN
        IF Len(s.set) = 0 \/ ~ColumnsOk(t, SetCols(s))
           \/ ~ParamsOk(Append(SetPhs(s), s.whereph), s.args)
        THEN ErrSQL
        ELSE IF \E r1, r2 \in d[t] :
                   /\ r1 # r2
                   /\ r1.id = s.args[PhIndex(s.whereph)]
                   /\ UpdatedRow(r1, s).id =
                        (IF r2.id = s.args[PhIndex(s.whereph)]
                         THEN UpdatedRow(r2, s).id ELSE r2.id)
        THEN ErrUnique
        ELSE NoErr
    ELSE IF s.kind = "JOIN" THEN
        IF Resolve(s.jtable) \notin TableNames \/ Len(s.args) # 1
        THEN ErrSQL ELSE NoErr
    ELSE \* DELETE and SELECT ... WHERE col = $1
        IF s.col \notin Columns(t) \/ Len(s.args) # 1 THEN ErrSQL ELSE NoErr

\* The store after statement s, which it accepted, has run.
Apply(d, s) ==
    LET t == Resolve(s.table) IN
    IF s.kind = "INSERT" THEN
        [d EXCEPT ![t] = @ \cup {InsertedRow(t, s)}]
    ELSE IF s.kind = "UPDATE" THEN
        [d EXCEPT ![t] =
            {IF r.id = s.args[PhIndex(s.whereph)] THEN UpdatedRow(r, s) ELSE r
               : r \in @}]
    ELSE IF s.kind = "DELETE" THEN
        [d EXCEPT ![t] = {r \in @ : r[s.col] # s.args[1]}]
    ELSE d

\* A row of the joined read: the user's columns and the session's id under
\* the alias __session_id.
JoinRow(u, x) ==
    [c \in DOMAIN u \cup {"__session_id"} |->
        IF c = "__session_id" THEN x.id ELSE u[c]]

\* The rows a query returns.  The joined read returns one row for every
\* (session, user) pair with user.id = session.user_id and session.id = $1.
QueryRows(d, s) ==
    LET t == Resolve(s.table) IN
    IF s.kind = "JOIN" THEN
        SetToSeq({JoinRow(pr[1], pr[2]) :
                    pr \in {q \in d[Resolve(s.jtable)] \X d[t] :
                               q[2].id = s.args[1] /\ q[1].id = q[2].user_id}})
    ELSE SetToSeq(RowsWhere(d, t, s.col, s.args[1]))

\* ------------------------------------------------------------------------
\* Inputs of the adapter
\* ------------------------------------------------------------------------

\* The Tables values adapters are constructed with; the key table is given
\* schema-qualified.  TablesB leaves the session table unset.
TablesA == [User |-> <<"auth_user">>, Session |-> <<"user_session">>,
            Key |-> <<"public", ".", "user_key">>]
TablesB == [User |-> <<"auth_user">>, Session |-> <<>>,
            Key |-> <<"public", ".", "user_key">>]
TablesChoices == {TablesA, TablesB}

\* The schema types of the auth package: the db tags in declaration order.
UserSchemaType == <<"id", "">>
KeySchemaType == <<"id", "user_id", "hashed_password">>
SessionSchemaType == <<"id", "user_id", "active_expires", "idle_expires", "">>

\* A Go map is a function from its keys; NoMap is the nil or empty map.
NoMap == <<>>
Maps(keys, vals) == UNION {[S -> vals] : S \in SUBSET keys}

\* The orders in which a range loop may visit the keys of map m.
Orders(m) ==
    {o \in [1..Cardinality(DOMAIN m) -> DOMAIN m] :
        \A i, j \in DOMAIN o : o[i] = o[j] => i = j}

UserValues ==
    [ID : UserIds, Attributes : Maps({"username"}, Usernames)]
KeyValues ==
    [ID : KeyIds, UserID : UserIds, HashedPassword : Passwords]
SessionValues ==
    [ID : SessionIds, UserID : UserIds, ActiveExpires : Expiries,
     IdleExpires : Expiries, Attributes : {NoMap}]

UserFieldValues(u) == <<u.ID, u.Attributes>>
KeyFieldValues(k) == <<k.ID, k.UserID, k.HashedPassword>>
SessionFieldValues(x) ==
    <<x.ID, x.UserID, x.ActiveExpires, x.IdleExpires, x.Attributes>>

PartialUsers == Maps({"username"}, Usernames)
PartialSessions == Maps({"active_expires", "idle_expires"}, Expiries)
PartialKeys ==
    {m \in Maps({"user_id", "hashed_password"}, UserIds \cup Passwords) :
        \A k \in DOMAIN m : m[k] \in (IF k = "user_id" THEN UserIds ELSE Passwords)}

\* ------------------------------------------------------------------------
\* State
\* ------------------------------------------------------------------------

VARIABLES
    ESCAPED_USER_TABLE_NAME,     \* package-level variables of postgres.go
    ESCAPED_KEY_TABLE_NAME,
    ESCAPED_SESSION_TABLE_NAME,
    adapters,    \* the adapters constructed so far, each by its tables field
    db,          \* the committed rows of every table
    tx,          \* the transaction of the SetUser in progress
    pc,          \* "idle", a position inside a call, or "done": returned
    call,        \* the call in progress or just returned: operation and inputs
    trace,       \* what that call asked of the database handle, in order
    ret,         \* what the call returned
    db0,         \* the committed rows when the call started
    rtype,       \* helper study: a record type
    rvalues,     \* helper study: the values of its fields
    hout,        \* helper study: what the helper returned for them
    ename,       \* EscapeName study: an identifier
    eout,        \* EscapeName study: EscapeName of it, then of that result
    callers,     \* concurrent SetUser calls on one adapter: position, inputs, error
    aborted      \* the transaction open on the adapter's connection has failed

globals ==
    <<ESCAPED_USER_TABLE_NAME, ESCAPED_KEY_TABLE_NAME, ESCAPED_SESSION_TABLE_NAME>>
helperVars == <<rtype, rvalues, hout, ename, eout, callers, aborted>>
vars == <<globals, adapters, db, tx, pc, call, trace, ret, db0, helperVars>>

\* The goroutines that call SetUser on one adapter at the same time.
Callers == {"A", "B"}
NoCaller == [pc |-> "idle", user |-> <<>>, key |-> <<>>, err |-> NoErr]
NoCallers == [c \in Callers |-> NoCaller]

NoStmt == [kind |-> "NONE"]
NoTx == [open |-> FALSE, db |-> <<>>]
NoCall == [op |-> "none", p |-> TablesA, id |-> "", user |-> <<>>,
           key |-> <<>>, session |-> <<>>, m |-> NoMap]
NoRet == [val |-> <<>>, user |-> <<>>, err |-> NoErr, panic |-> FALSE]

Event(ev, stmt, err) == [ev |-> ev, stmt |-> stmt, err |-> err]
Return(val, user, err) == [val |-> val, user |-> user, err |-> err, panic |-> FALSE]
Panic == [val |-> <<>>, user |-> <<>>, err |-> NoErr, panic |-> TRUE]

Init ==
    /\ ESCAPED_USER_TABLE_NAME = <<>>
    /\ ESCAPED_KEY_TABLE_NAME = <<>>
    /\ ESCAPED_SESSION_TABLE_NAME = <<>>
    /\ adapters = {}
    /\ db = [t \in TableNames |-> {}]
    /\ tx = NoTx
    /\ pc = "idle"
    /\ call = NoCall
    /\ trace = <<>>
    /\ ret = NoRet
    /\ db0 = db
    /\ rtype = <<>>
    /\ rvalues = <<>>
    /\ hout = <<>>
    /\ ename = <<>>
    /\ eout = <<>>
    /\ callers = NoCallers
    /\ aborted = FALSE

\* The outcome of one statement sent to the store in state d: connectivity
\* may be lost (fail), or the store accepts or rejects the statement.
ExecErr(d, s, fail) == IF fail THEN ErrConn ELSE StmtError(d, s)
ExecDb(d, s, fail) == IF ExecErr(d, s, fail) = NoErr THEN Apply(d, s) ELSE d

\* scan.Select / pgxscan.Select into a nil slice: the rows of the result,
\* and the slice stays nil when the query fails or returns no row.
SelectInto(d, s, fail) ==
    IF ExecErr(d, s, fail) = NoErr THEN QueryRows(d, s) ELSE <<>>

\* A call that runs to its return in one step.
Finish(c, tr, r, d) ==
    /\ pc = "idle"
    /\ call' = c
    /\ trace' = tr
    /\ ret' = r
    /\ db' = d
    /\ db0' = db
    /\ pc' = "done"
    /\ UNCHANGED <<globals, adapters, tx, helperVars>>

\* The caller has read what the call returned; the adapter keeps nothing of
\* a finished call.
CallerProceeds ==
    /\ pc = "done"
    /\ pc' = "idle"
    /\ call' = NoCall
    /\ trace' = <<>>
    /\ ret' = NoRet
    /\ db0' = db
    /\ UNCHANGED <<globals, adapters, db, tx, helperVars>>

\* ------------------------------------------------------------------------
\* Construction
\* ------------------------------------------------------------------------

PostgresAdapter(tables) ==
    /\ pc = "idle"
    /\ ESCAPED_USER_TABLE_NAME' = EscapeName(tables.User)
    /\ ESCAPED_KEY_TABLE_NAME' = EscapeName(tables.Key)
    /\ ESCAPED_SESSION_TABLE_NAME' = EscapeName(tables.Session)
    /\ adapters' = adapters \cup {tables}
    /\ UNCHANGED <<db, tx, pc, call, trace, ret, db0, helperVars>>

\* ------------------------------------------------------------------------
\* Statements the adapter builds
\* ------------------------------------------------------------------------

SelectStmt(table, col, arg) ==
    [kind |-> "SELECT", table |-> table, col |-> col, args |-> <<arg>>]

DeleteStmt(table, col, arg) ==
    [kind |-> "DELETE", table |-> table, col |-> col, args |-> <<arg>>]

InsertStmt(table, fields, placeholders, args) ==
    [kind |-> "INSERT", table |-> table, fields |-> fields,
     placeholders |-> placeholders, args |-> args]

UpdateStmt(table, set, n, args) ==
    [kind |-> "UPDATE", table |-> table, set |-> set,
     whereph |-> <<"$", n>>, args |-> args]

JoinStmt(stable, utable, arg) ==
    [kind |-> "JOIN", table |-> stable, jtable |-> utable, args |-> <<arg>>]

\* ------------------------------------------------------------------------
\* Reads
\* ------------------------------------------------------------------------

\* scany copies a result row into an element of the destination slice: a
\* column goes to the field tagged with its name, a column that no field is
\* tagged with is dropped (WithAllowUnknownColumns), and a field that no
\* column names keeps its zero value.  The Attributes map is such a field.
ScanRow(row, dest) ==
    IF dest = "UserSchema" THEN [ID |-> row.id, Attributes |-> NoMap]
    ELSE IF dest = "SessionSchema" THEN
        [ID |-> row.id, UserID |-> row.user_id,
         ActiveExpires |-> row.active_expires,
         IdleExpires |-> row.idle_expires, Attributes |-> NoMap]
    ELSE IF dest = "KeySchema" THEN
        [ID |-> row.id, UserID |-> row.user_id,
         HashedPassword |-> row.hashed_password]
    ELSE [ID |-> row.id, SessionID |-> row["__session_id"]]

Scanned(rows, dest) == [i \in 1..Len(rows) |-> ScanRow(rows[i], dest)]

\* A plausible slip (the first revision of GetUser): index without a nil test.
FirstUnchecked(rows) ==
    IF rows # <<>> THEN Return(<<rows[1]>>, <<>>, NoErr) ELSE Panic

\* if rows != nil { return &rows[0], nil }; return nil, nil
FirstOrNil(rows) ==
    IF rows # <<>> THEN Return(<<rows[1]>>, <<>>, NoErr)
    ELSE Return(<<>>, <<>>, NoErr)

\* What GetUser returns for the committed rows d.
GetUserReturn(d, userId, fail) ==
    LET query == SelectStmt(ESCAPED_USER_TABLE_NAME, "id", userId)
        users == Scanned(SelectInto(d, query, fail), "UserSchema")
    IN  FirstOrNil(users)

GetUser(p, userId, fail) ==
    LET query == SelectStmt(ESCAPED_USER_TABLE_NAME, "id", userId)
    IN  Finish([NoCall EXCEPT !.op = "GetUser", !.p = p, !.id = userId],
               <<Event("Query", query, ExecErr(db, query, fail))>>,
               GetUserReturn(db, userId, fail), db)

\* What GetSession returns for the committed rows d.
GetSessionReturn(d, sessionId, fail) ==
    LET query == SelectStmt(ESCAPED_SESSION_TABLE_NAME, "id", sessionId)
        sessions == Scanned(SelectInto(d, query, fail), "SessionSchema")
    IN  IF ESCAPED_SESSION_TABLE_NAME = <<>>
        THEN Return(<<>>, <<>>, NoErr)
        ELSE FirstOrNil(sessions)

GetSession(p, sessionId, fail) ==
    LET query == SelectStmt(ESCAPED_SESSION_TABLE_NAME, "id", sessionId)
        c == [NoCall EXCEPT !.op = "GetSession", !.p = p, !.id = sessionId]
    IN  IF ESCAPED_SESSION_TABLE_NAME = <<>>
        THEN Finish(c, <<>>, GetSessionReturn(db, sessionId, fail), db)
        ELSE Finish(c, <<Event("Query", query, ExecErr(db, query, fail))>>,
                    GetSessionReturn(db, sessionId, fail), db)

\* What GetSessionsByUserId returns for the committed rows d: the error of
\* scan.Select is dropped.
GetSessionsByUserIdReturn(d, userId, fail) ==
    LET query == SelectStmt(ESCAPED_SESSION_TABLE_NAME, "user_id", userId)
        sessions == Scanned(SelectInto(d, query, fail), "SessionSchema")
    IN  IF ESCAPED_SESSION_TABLE_NAME = <<>>
        THEN Return(<<>>, <<>>, NoErr)
        ELSE Return(sessions, <<>>, NoErr)

GetSessionsByUserId(p, userId, fail) ==
    LET query == SelectStmt(ESCAPED_SESSION_TABLE_NAME, "user_id", userId)
        c == [NoCall EXCEPT !.op = "GetSessionsByUserId", !.p = p, !.id = userId]
    IN  IF ESCAPED_SESSION_TABLE_NAME = <<>>
        THEN Finish(c, <<>>, GetSessionsByUserIdReturn(db, userId, fail), db)
        ELSE Finish(c, <<Event("Query", query, ExecErr(db, query, fail))>>,
                    GetSessionsByUserIdReturn(db, userId, fail), db)

\* What GetKey returns for the committed rows d.
GetKeyReturn(d, keyId, fail) ==
    LET query == SelectStmt(ESCAPED_KEY_TABLE_NAME, "id", keyId)
        keys == Scanned(SelectInto(d, query, fail), "KeySchema")
    IN  FirstOrNil(keys)

GetKey(p, keyId, fail) ==
    LET query == SelectStmt(ESCAPED_KEY_TABLE_NAME, "id", keyId)
    IN  Finish([NoCall EXCEPT !.op = "GetKey", !.p = p, !.id = keyId],
               <<Event("Query", query, ExecErr(db, query, fail))>>,
               GetKeyReturn(db, keyId, fail), db)

\* What GetKeysByUserId returns for the committed rows d: the error of
\* pgxscan.Select is dropped.
GetKeysByUserIdReturn(d, userId, fail) ==
    LET query == SelectStmt(ESCAPED_KEY_TABLE_NAME, "user_id", userId)
        keys == Scanned(SelectInto(d, query, fail), "KeySchema")
    IN  Return(keys, <<>>, NoErr)

GetKeysByUserId(p, userId, fail) ==
    LET query == SelectStmt(ESCAPED_KEY_TABLE_NAME, "user_id", userId)
    IN  Finish([NoCall EXCEPT !.op = "GetKeysByUserId", !.p = p, !.id = userId],
               <<Event("Query", query, ExecErr(db, query, fail))>>,
               GetKeysByUserIdReturn(db, userId, fail), db)

\* A plausible slip: the user of the joined row is not handed back.
SessionOnly(session, result) == Return(session.val, <<>>, NoErr)

\* return session, &result[0], nil
SessionAndUser(session, result) == Return(session.val, <<result[1]>>, NoErr)

\* The joined read: GetSession, then the INNER JOIN query; result[0] is
\* evaluated for the debug log before result is tested against nil.
GetSessionAndUser(p, sessionId, fail1, fail2) ==
    LET squery == SelectStmt(ESCAPED_SESSION_TABLE_NAME, "id", sessionId)
        session == GetSessionReturn(db, sessionId, fail1)
        query == JoinStmt(ESCAPED_SESSION_TABLE_NAME, ESCAPED_USER_TABLE_NAME,
                          sessionId)
        result == Scanned(SelectInto(db, query, fail2), "UserJoinSessionSchema")
        c == [NoCall EXCEPT !.op = "GetSessionAndUser", !.p = p, !.id = sessionId]
        tr == <<Event("Query", squery, ExecErr(db, squery, fail1)),
                Event("Query", query, ExecErr(db, query, fail2))>>
    IN  IF ESCAPED_SESSION_TABLE_NAME = <<>>
        THEN Finish(c, <<>>, Return(<<>>, <<>>, NoErr), db)
        ELSE IF session.err # NoErr
        THEN Finish(c, <<tr[1]>>, Return(<<>>, <<>>, session.err), db)
        ELSE IF result = <<>>
        THEN Finish(c, tr, Panic, db)
        ELSE Finish(c, tr, SessionAndUser(session, result), db)

\* ------------------------------------------------------------------------
\* Writes outside a transaction
\* ------------------------------------------------------------------------

\* A plausible slip (the loop of UpdateKey): i is never incremented.
WithAttributesStuck(h, attrs, o) ==
    [fields       |-> h.fields \o [k \in 1..Len(o) |-> EscapeName(<<o[k]>>)],
     placeholders |-> h.placeholders \o
                        [k \in 1..Len(o) |-> PgPlaceholder(Len(h.args))],
     args         |-> h.args \o [k \in 1..Len(o) |-> attrs[o[k]]]]

\* A plausible slip: an attribute naming a column the helper already
\* returned is left out.
WithAttributesSkip(h, attrs, o) ==
    LET Fresh(key) == \A i \in 1..Len(h.fields) : h.fields[i] # EscapeName(<<key>>)
        kept == SelectSeq(o, Fresh)
    IN  [fields       |-> h.fields \o [k \in 1..Len(kept) |-> EscapeName(<<kept[k]>>)],
         placeholders |-> h.placeholders \o
                            [k \in 1..Len(kept) |-> PgPlaceholder(Len(h.args) + k - 1)],
         args         |-> h.args \o [k \in 1..Len(kept) |-> attrs[kept[k]]]]

\* The range loop over Attributes: one column per key, visited in order o,
\* numbered on from the arguments the helper returned.
WithAttributes(h, attrs, o) ==
    [fields       |-> h.fields \o [k \in 1..Len(o) |-> EscapeName(<<o[k]>>)],
     placeholders |-> h.placeholders \o
                        [k \in 1..Len(o) |-> PgPlaceholder(Len(h.args) + k - 1)],
     args         |-> h.args \o [k \in 1..Len(o) |-> attrs[o[k]]]]

UserFragment(user, o) ==
    WithAttributes(
        CreatePreparedStatementHelper(UserSchemaType, UserFieldValues(user)),
        user.Attributes, o)

\* A plausible slip (the loop of UpdateKey): i is never incremented.
PartialFragmentStuck(m, o) ==
    [fields       |-> [k \in 1..Len(o) |-> EscapeName(<<o[k]>>)],
     placeholders |-> [k \in 1..Len(o) |-> PgPlaceholder(0)],
     args         |-> [k \in 1..Len(o) |-> m[o[k]]]]

\* The range loop of UpdateUser and UpdateSession: i counts the keys visited.
PartialFragment(m, o) ==
    [fields       |-> [k \in 1..Len(o) |-> EscapeName(<<o[k]>>)],
     placeholders |-> [k \in 1..Len(o) |-> PgPlaceholder(k - 1)],
     args         |-> [k \in 1..Len(o) |-> m[o[k]]]]

\* The range loop of UpdateKey: the key is not escaped and i stays 0.
PartialKeyFragment(m, o) ==
    [fields       |-> [k \in 1..Len(o) |-> <<o[k]>>],
     placeholders |-> [k \in 1..Len(o) |-> PgPlaceholder(0)],
     args         |-> [k \in 1..Len(o) |-> m[o[k]]]]

\* p.db.Exec of one statement, whose error the operation returns.
ExecOnce(c, stmt, fail) ==
    Finish(c, <<Event("Exec", stmt, ExecErr(db, stmt, fail))>>,
           Return(<<>>, <<>>, ExecErr(db, stmt, fail)), ExecDb(db, stmt, fail))

SetUserNoKey(p, user, o, fail) ==
    LET f == UserFragment(user, o) IN
    ExecOnce([NoCall EXCEPT !.op = "SetUser", !.p = p, !.id = user.ID,
                            !.user = <<user>>],
             InsertStmt(ESCAPED_USER_TABLE_NAME, f.fields, f.placeholders, f.args),
             fail)

\* A plausible slip: the keys of the user are deleted along with the user.
DeleteUserCascade(p, userId, fail) ==
    LET kstmt == DeleteStmt(ESCAPED_KEY_TABLE_NAME, "user_id", userId)
        ustmt == DeleteStmt(ESCAPED_USER_TABLE_NAME, "id", userId)
        d1 == ExecDb(db, kstmt, fail)
    IN  Finish([NoCall EXCEPT !.op = "DeleteUser", !.p = p, !.id = userId],
               <<Event("Exec", kstmt, ExecErr(db, kstmt, fail)),
                 Event("Exec", ustmt, ExecErr(d1, ustmt, fail))>>,
               Return(<<>>, <<>>, ExecErr(d1, ustmt, fail)),
               ExecDb(d1, ustmt, fail))

DeleteUser(p, userId, fail) ==
    ExecOnce([NoCall EXCEPT !.op = "DeleteUser", !.p = p, !.id = userId],
             DeleteStmt(ESCAPED_USER_TABLE_NAME, "id", userId), fail)

UpdateUser(p, userId, partialUser, o, fail) ==
    LET f == PartialFragment(partialUser, o) IN
    ExecOnce([NoCall EXCEPT !.op = "UpdateUser", !.p = p, !.id = userId,
                            !.m = partialUser],
             UpdateStmt(ESCAPED_USER_TABLE_NAME,
                        GetSetArgs(f.fields, f.placeholders),
                        Len(f.args) + 1, Append(f.args, userId)),
             fail)

\* A session operation returns at once when the escaped session table name
\* is the empty string.
SessionExec(c, stmt, fail) ==
    IF ESCAPED_SESSION_TABLE_NAME = <<>>
    THEN Finish(c, <<>>, Return(<<>>, <<>>, NoErr), db)
    ELSE ExecOnce(c, stmt, fail)

SetSession(p, session, o, fail) ==
    LET f == WithAttributes(
                 CreatePreparedStatementHelper(SessionSchemaType,
                                               SessionFieldValues(session)),
                 session.Attributes, o) IN
    SessionExec([NoCall EXCEPT !.op = "SetSession", !.p = p, !.id = session.ID,
                               !.session = <<session>>],
                InsertStmt(ESCAPED_SESSION_TABLE_NAME, f.fields, f.placeholders,
                           f.args),
                fail)

DeleteSession(p, sessionId, fail) ==
    SessionExec([NoCall EXCEPT !.op = "DeleteSession", !.p = p, !.id = sessionId],
                DeleteStmt(ESCAPED_SESSION_TABLE_NAME, "id", sessionId), fail)

\* A plausible slip (the statement of DeleteSession): the wrong column.
DeleteSessionsById(p, userId, fail) ==
    SessionExec([NoCall EXCEPT !.op = "DeleteSessionsByUserId", !.p = p,
                               !.id = userId],
                DeleteStmt(ESCAPED_SESSION_TABLE_NAME, "id", userId), fail)

DeleteSessionsByUserId(p, userId, fail) ==
    SessionExec([NoCall EXCEPT !.op = "DeleteSessionsByUserId", !.p = p,
                               !.id = userId],
                DeleteStmt(ESCAPED_SESSION_TABLE_NAME, "user_id", userId), fail)

UpdateSession(p, sessionId, partialSession, o, fail) ==
    LET f == PartialFragment(partialSession, o) IN
    SessionExec([NoCall EXCEPT !.op = "UpdateSession", !.p = p, !.id = sessionId,
                               !.m = partialSession],
                UpdateStmt(ESCAPED_SESSION_TABLE_NAME,
                           GetSetArgs(f.fields, f.placeholders),
                           Len(f.args) + 1, Append(f.args, sessionId)),
                fail)

SetKey(p, key, fail) ==
    LET f == CreatePreparedStatementHelper(KeySchemaType,
                                           KeyFieldValues(key)) IN
    ExecOnce([NoCall EXCEPT !.op = "SetKey", !.p = p, !.id = key.ID,
                            !.key = <<key>>],
             InsertStmt(ESCAPED_KEY_TABLE_NAME, f.fields, f.placeholders, f.args),
             fail)

UpdateKey(p, keyId, partialKey, o, fail) ==
    LET f == PartialKeyFragment(partialKey, o) IN
    ExecOnce([NoCall EXCEPT !.op = "UpdateKey", !.p = p, !.id = keyId,
                            !.m = partialKey],
             UpdateStmt(ESCAPED_KEY_TABLE_NAME,
                        GetSetArgs(f.fields, f.placeholders),
                        Len(f.fields) + 1, Append(f.args, keyId)),
             fail)

\* A plausible slip (the statement of DeleteKeysByUserId): the wrong column.
DeleteKeyByUser(p, keyId, fail) ==
    ExecOnce([NoCall EXCEPT !.op = "DeleteKey", !.p = p, !.id = keyId],
             DeleteStmt(ESCAPED_KEY_TABLE_NAME, "user_id", keyId), fail)

DeleteKey(p, keyId, fail) ==
    ExecOnce([NoCall EXCEPT !.op = "DeleteKey", !.p = p, !.id = keyId],
             DeleteStmt(ESCAPED_KEY_TABLE_NAME, "id", keyId), fail)

DeleteKeysByUserId(p, userId, fail) ==
    ExecOnce([NoCall EXCEPT !.op = "DeleteKeysByUserId", !.p = p, !.id = userId],
             DeleteStmt(ESCAPED_KEY_TABLE_NAME, "user_id", userId), fail)

\* ------------------------------------------------------------------------
\* SetUser with a key: the transactional write, one step per store call
\* ------------------------------------------------------------------------

\* A plausible slip: the deferred call commits what the transaction wrote.
CommitOnReturn(d, t) == t.db

\* defer tx.Rollback(p.ctx): the committed rows after the transaction t is
\* rolled back are the committed rows d; what t wrote is discarded, also
\* when the rollback reports an error (the connection is then closed).
RolledBack(d, t) == d

\* A plausible slip: a failed rollback replaces the error of the statement.
RollbackErrFirst(stmtErr, rbErr) == IF rbErr # NoErr THEN rbErr ELSE stmtErr

\* return err, with the deferred Rollback's own result dropped.
ReturnedErr(stmtErr, rbErr) == stmtErr

\* A plausible slip: the error of an INSERT is not tested.
GoOn(err, next) == next

\* if err := insertIntoTable(...); err != nil { return err }
AfterInsert(err, next) == IF err # NoErr THEN "return" ELSE next

SetUserBegin(p, user, key, fail) ==
    LET err == IF fail THEN ErrConn ELSE NoErr IN
    /\ pc = "idle"
    /\ call' = [NoCall EXCEPT !.op = "SetUser", !.p = p, !.id = user.ID,
                              !.user = <<user>>, !.key = <<key>>]
    /\ db0' = db
    /\ trace' = <<Event("Begin", NoStmt, err)>>
    /\ ret' = Return(<<>>, <<>>, err)
    /\ IF err # NoErr
       THEN pc' = "done" /\ tx' = NoTx
       ELSE pc' = "SetUser:insertUser" /\ tx' = [open |-> TRUE, db |-> db]
    /\ UNCHANGED <<globals, adapters, db, helperVars>>

\* One INSERT through the transaction handle, and the return that follows
\* a failure: the deferred Rollback runs (rbfail: it fails too).
TxInsert(stmt, next, fail, rbfail) ==
    LET err == ExecErr(tx.db, stmt, fail)
        rbErr == IF rbfail THEN ErrConn ELSE NoErr
    IN  IF AfterInsert(err, next) = "return"
        THEN /\ trace' = trace \o <<Event("Exec", stmt, err),
                                    Event("Rollback", NoStmt, rbErr)>>
             /\ ret' = Return(<<>>, <<>>, ReturnedErr(err, rbErr))
             /\ db' = RolledBack(db, tx)
             /\ tx' = NoTx
             /\ pc' = "done"
        ELSE /\ trace' = Append(trace, Event("Exec", stmt, err))
             /\ tx' = [tx EXCEPT !.db = ExecDb(tx.db, stmt, fail)]
             /\ pc' = next
             /\ UNCHANGED <<ret, db>>

SetUserInsertUser(o, fail, rbfail) ==
    LET user == call.user[1]
        f == UserFragment(user, o)
    IN  /\ pc = "SetUser:insertUser"
        /\ o \in Orders(user.Attributes)
        /\ TxInsert(InsertStmt(ESCAPED_USER_TABLE_NAME, f.fields,
                               f.placeholders, f.args),
                    "SetUser:insertKey", fail, rbfail)
        /\ UNCHANGED <<globals, adapters, call, db0, helperVars>>

SetUserInsertKey(fail, rbfail) ==
    LET f == CreatePreparedStatementHelper(KeySchemaType,
                                           KeyFieldValues(call.key[1]))
    IN  /\ pc = "SetUser:insertKey"
        /\ TxInsert(InsertStmt(ESCAPED_KEY_TABLE_NAME, f.fields,
                               f.placeholders, f.args),
                    "SetUser:commit", fail, rbfail)
        /\ UNCHANGED <<globals, adapters, call, db0, helperVars>>

\* return tx.Commit(p.ctx); the deferred Rollback then finds the
\* transaction closed and does nothing.
SetUserCommit(fail) ==
    LET err == IF fail THEN ErrConn ELSE NoErr IN
    /\ pc = "SetUser:commit"
    /\ trace' = trace \o <<Event("Commit", NoStmt, err),
                            Event("Rollback", NoStmt, ErrTxClosed)>>
    /\ ret' = Return(<<>>, <<>>, err)
    /\ db' = IF err = NoErr THEN tx.db ELSE RolledBack(db, tx)
    /\ tx' = NoTx
    /\ pc' = "done"
    /\ UNCHANGED <<globals, adapters, call, db0, helperVars>>

\* ------------------------------------------------------------------------
\* The adapter as a state machine
\* ------------------------------------------------------------------------

Next ==
    \/ \E tables \in TablesChoices : PostgresAdapter(tables)
    \/ \E p \in adapters, id \in UserIds, fail \in BOOLEAN : GetUser(p, id, fail)
    \/ \E p \in adapters, id \in SessionIds, fail \in BOOLEAN :
          GetSession(p, id, fail)
    \/ \E p \in adapters, id \in UserIds, fail \in BOOLEAN :
          GetSessionsByUserId(p, id, fail)
    \/ \E p \in adapters, id \in KeyIds, fail \in BOOLEAN : GetKey(p, id, fail)
    \/ \E p \in adapters, id \in UserIds, fail \in BOOLEAN :
          GetKeysByUserId(p, id, fail)
    \/ \E p \in adapters, id \in SessionIds, fail, fail2 \in BOOLEAN :
          GetSessionAndUser(p, id, fail, fail2)
    \/ \E p \in adapters, user \in UserValues, fail \in BOOLEAN :
          \E o \in Orders(user.Attributes) : SetUserNoKey(p, user, o, fail)
    \/ \E p \in adapters, id \in UserIds, fail \in BOOLEAN : DeleteUser(p, id, fail)
    \/ \E p \in adapters, id \in UserIds, m \in PartialUsers, fail \in BOOLEAN :
          \E o \in Orders(m) : UpdateUser(p, id, m, o, fail)
    \/ \E p \in adapters, x \in SessionValues, fail \in BOOLEAN :
          \E o \in Orders(x.Attributes) : SetSession(p, x, o, fail)
    \/ \E p \in adapters, id \in SessionIds, fail \in BOOLEAN :
          DeleteSession(p, id, fail)
    \/ \E p \in adapters, id \in UserIds, fail \in BOOLEAN :
          DeleteSessionsByUserId(p, id, fail)
    \/ \E p \in adapters, id \in SessionIds, m \in PartialSessions,
          fail \in BOOLEAN :
          \E o \in Orders(m) : UpdateSession(p, id, m, o, fail)
    \/ \E p \in adapters, key \in KeyValues, fail \in BOOLEAN : SetKey(p, key, fail)
    \/ \E p \in adapters, id \in KeyIds, m \in PartialKeys, fail \in BOOLEAN :
          \E o \in Orders(m) : UpdateKey(p, id, m, o, fail)
    \/ \E p \in adapters, id \in KeyIds, fail \in BOOLEAN : DeleteKey(p, id, fail)
    \/ \E p \in adapters, id \in UserIds, fail \in BOOLEAN :
          DeleteKeysByUserId(p, id, fail)
    \/ \E p \in adapters, user \in UserValues, key \in KeyValues,
          fail \in BOOLEAN : SetUserBegin(p, user, key, fail)
    \/ /\ pc = "SetUser:insertUser"
       /\ \E o \in Orders(call.user[1].Attributes), fail, rbfail \in BOOLEAN :
             SetUserInsertUser(o, fail, rbfail)
    \/ \E fail, rbfail \in BOOLEAN : SetUserInsertKey(fail, rbfail)
    \/ \E fail \in BOOLEAN : SetUserCommit(fail)
    \/ CallerProceeds

Spec == Init /\ [][Next]_vars

\* ------------------------------------------------------------------------
\* The statement helper on arbitrary record types
\* ------------------------------------------------------------------------

Tags == {"", "-", "id", "username"}
FieldValues == {"v1", "v2"}
RecordTypes == UNION {[1..n -> Tags] : n \in 0..MaxFields}

InitHelper ==
    /\ ESCAPED_USER_TABLE_NAME = <<>>
    /\ ESCAPED_KEY_TABLE_NAME = <<>>
    /\ ESCAPED_SESSION_TABLE_NAME = <<>>
    /\ adapters = {}
    /\ db = [t \in TableNames |-> {}]
    /\ tx = NoTx
    /\ pc = "idle"
    /\ call = NoCall
    /\ trace = <<>>
    /\ ret = NoRet
    /\ db0 = db
    /\ rtype \in RecordTypes
    /\ rvalues \in [1..Len(rtype) -> FieldValues]
    /\ hout = <<>>
    /\ ename = <<>>
    /\ eout = <<>>
    /\ callers = NoCallers
    /\ aborted = FALSE

\* userHelper(user), keyHelper(key), sessionHelper(session): the helper
\* made with the adapter's placeholder function, applied to a record.
HelperCall ==
    /\ hout = <<>>
    /\ hout' = <<CreatePreparedStatementHelper(rtype, rvalues)>>
    /\ UNCHANGED <<globals, adapters, db, tx, pc, call, trace, ret, db0,
                   rtype, rvalues, ename, eout, callers, aborted>>

\* The next record, of any type, is at hand.
HelperNextRecord ==
    /\ hout # <<>>
    /\ rtype' \in RecordTypes
    /\ rvalues' \in [1..Len(rtype') -> FieldValues]
    /\ hout' = <<>>
    /\ UNCHANGED <<globals, adapters, db, tx, pc, call, trace, ret, db0,
                   ename, eout, callers, aborted>>

NextHelper == HelperCall \/ HelperNextRecord

SpecHelper == InitHelper /\ [][NextHelper]_vars

\* ------------------------------------------------------------------------
\* One adapter over a store with more values
\* ------------------------------------------------------------------------

\* The inputs of the calls: users with up to two attributes, of which
\* "email" is no column of the user table; updates that change a value.
NewUsernames == {"bob"}
Emails == {"ann@x"}
NewActiveExpires == {"t2"}
NewIdleExpires == {"t3"}

AttributeMaps ==
    {m \in Maps({"username", "email"}, Usernames \cup Emails) :
        \A k \in DOMAIN m :
            m[k] \in (IF k = "username" THEN Usernames ELSE Emails)}
UserValuesOne == [ID : UserIds, Attributes : AttributeMaps]
PartialUsersOne == Maps({"username"}, NewUsernames)
PartialSessionsOne ==
    {m \in Maps({"active_expires", "idle_expires"},
                NewActiveExpires \cup NewIdleExpires) :
        \A k \in DOMAIN m :
            m[k] \in (IF k = "active_expires" THEN NewActiveExpires
                                              ELSE NewIdleExpires)}

\* The state after adapter := PostgresAdapter(ctx, conn, TablesA, false).
InitOne ==
    /\ ESCAPED_USER_TABLE_NAME = EscapeName(TablesA.User)
    /\ ESCAPED_KEY_TABLE_NAME = EscapeName(TablesA.Key)
    /\ ESCAPED_SESSION_TABLE_NAME = EscapeName(TablesA.Session)
    /\ adapters = {TablesA}
    /\ db = [t \in TableNames |-> {}]
    /\ tx = NoTx
    /\ pc = "idle"
    /\ call = NoCall
    /\ trace = <<>>
    /\ ret = NoRet
    /\ db0 = db
    /\ rtype = <<>>
    /\ rvalues = <<>>
    /\ hout = <<>>
    /\ ename = <<>>
    /\ eout = <<>>
    /\ callers = NoCallers
    /\ aborted = FALSE

NextOne ==
    \/ \E p \in adapters, id \in UserIds, fail \in BOOLEAN : GetUser(p, id, fail)
    \/ \E p \in adapters, id \in SessionIds, fail \in BOOLEAN :
          GetSession(p, id, fail)
    \/ \E p \in adapters, id \in UserIds, fail \in BOOLEAN :
          GetSessionsByUserId(p, id, fail)
    \/ \E p \in adapters, id \in KeyIds, fail \in BOOLEAN : GetKey(p, id, fail)
    \/ \E p \in adapters, id \in UserIds, fail \in BOOLEAN :
          GetKeysByUserId(p, id, fail)
    \/ \E p \in adapters, id \in SessionIds, fail, fail2 \in BOOLEAN :
          GetSessionAndUser(p, id, fail, fail2)
    \/ \E p \in adapters, user \in UserValuesOne, fail \in BOOLEAN :
          \E o \in Orders(user.Attributes) : SetUserNoKey(p, user, o, fail)
    \/ \E p \in adapters, id \in UserIds, fail \in BOOLEAN : DeleteUser(p, id, fail)
    \/ \E p \in adapters, id \in UserIds, m \in PartialUsersOne, fail \in BOOLEAN :
          \E o \in Orders(m) : UpdateUser(p, id, m, o, fail)
    \/ \E p \in adapters, x \in SessionValues, fail \in BOOLEAN :
          \E o \in Orders(x.Attributes) : SetSession(p, x, o, fail)
    \/ \E p \in adapters, id \in SessionIds, fail \in BOOLEAN :
          DeleteSession(p, id, fail)
    \/ \E p \in adapters, id \in UserIds, fail \in BOOLEAN :
          DeleteSessionsByUserId(p, id, fail)
    \/ \E p \in adapters, id \in SessionIds, m \in PartialSessionsOne,
          fail \in BOOLEAN :
          \E o \in Orders(m) : UpdateSession(p, id, m, o, fail)
    \/ \E p \in adapters, key \in KeyValues, fail \in BOOLEAN : SetKey(p, key, fail)
    \/ \E p \in adapters, id \in KeyIds, m \in PartialKeys, fail \in BOOLEAN :
          \E o \in Orders(m) : UpdateKey(p, id, m, o, fail)
    \/ \E p \in adapters, id \in KeyIds, fail \in BOOLEAN : DeleteKey(p, id, fail)
    \/ \E p \in adapters, id \in UserIds, fail \in BOOLEAN :
          DeleteKeysByUserId(p, id, fail)
    \/ \E p \in adapters, user \in UserValuesOne, key \in KeyValues,
          fail \in BOOLEAN :
          key.UserID = user.ID /\ SetUserBegin(p, user, key, fail)
    \/ /\ pc = "SetUser:insertUser"
       /\ \E o \in Orders(call.user[1].Attributes), fail, rbfail \in BOOLEAN :
             SetUserInsertUser(o, fail, rbfail)
    \/ \E fail, rbfail \in BOOLEAN : SetUserInsertKey(fail, rbfail)
    \/ \E fail \in BOOLEAN : SetUserCommit(fail)
    \/ CallerProceeds

SpecOne == InitOne /\ [][NextOne]_vars

\* ------------------------------------------------------------------------
\* The revision with a typed user record (postgresAdapterImpl[U, S])
\* ------------------------------------------------------------------------

\* type User struct { ID string `db:"id"`; Username string `db:"username"` }
UserType == <<"id", "username">>
ZeroString == ""
TypedUsers == [ID : UserIds, Username : Usernames]
PartialTypedUsers ==
    [ID : {ZeroString} \cup UserIds, Username : {ZeroString} \cup NewUsernames]
TypedFieldValues(u) == <<u.ID, u.Username>>

\* SetUser(user U, nil): the helper's columns, one INSERT.
SetUserTyped(p, user, fail) ==
    LET f == CreatePreparedStatementHelper(UserType, TypedFieldValues(user)) IN
    ExecOnce([NoCall EXCEPT !.op = "SetUserTyped", !.p = p, !.id = user.ID,
                            !.user = <<user>>],
             InsertStmt(ESCAPED_USER_TABLE_NAME, f.fields, f.placeholders, f.args),
             fail)

\* UpdateUser(userId string, partialUser U): the SET clause is what the
\* helper returns for partialUser.
UpdateUserTyped(p, userId, partialUser, fail) ==
    LET f == CreatePreparedStatementHelper(UserType,
                                           TypedFieldValues(partialUser)) IN
    ExecOnce([NoCall EXCEPT !.op = "UpdateUserTyped", !.p = p, !.id = userId,
                            !.user = <<partialUser>>],
             UpdateStmt(ESCAPED_USER_TABLE_NAME,
                        GetSetArgs(f.fields, f.placeholders),
                        Len(f.args) + 1, Append(f.args, userId)),
             fail)

NextTyped ==
    \/ \E p \in adapters, user \in TypedUsers, fail \in BOOLEAN :
          SetUserTyped(p, user, fail)
    \/ \E p \in adapters, id \in UserIds, partialUser \in PartialTypedUsers,
          fail \in BOOLEAN : UpdateUserTyped(p, id, partialUser, fail)
    \/ \E p \in adapters, id \in UserIds, fail \in BOOLEAN : DeleteUser(p, id, fail)
    \/ CallerProceeds

SpecTyped == InitOne /\ [][NextTyped]_vars

\* ------------------------------------------------------------------------
\* Attribute keys that name a column of a tagged field
\* ------------------------------------------------------------------------

CollidingUserMaps ==
    {m \in Maps({"id", "username"}, UserIds \cup Usernames) :
        \A k \in DOMAIN m : m[k] \in (IF k = "id" THEN UserIds ELSE Usernames)}
CollidingUsers == [ID : UserIds, Attributes : CollidingUserMaps]
CollidingSessions ==
    [ID : SessionIds, UserID : UserIds, ActiveExpires : Expiries,
     IdleExpires : Expiries, Attributes : Maps({"user_id"}, UserIds)]

NextCollide ==
    \/ \E p \in adapters, user \in CollidingUsers, fail \in BOOLEAN :
          \E o \in Orders(user.Attributes) : SetUserNoKey(p, user, o, fail)
    \/ \E p \in adapters, x \in CollidingSessions, fail \in BOOLEAN :
          \E o \in Orders(x.Attributes) : SetSession(p, x, o, fail)
    \/ \E p \in adapters, user \in CollidingUsers, key \in KeyValues,
          fail \in BOOLEAN :
          key.UserID = user.ID /\ SetUserBegin(p, user, key, fail)
    \/ /\ pc = "SetUser:insertUser"
       /\ \E o \in Orders(call.user[1].Attributes), fail, rbfail \in BOOLEAN :
             SetUserInsertUser(o, fail, rbfail)
    \/ \E fail, rbfail \in BOOLEAN : SetUserInsertKey(fail, rbfail)
    \/ \E fail \in BOOLEAN : SetUserCommit(fail)
    \/ \E p \in adapters, id \in UserIds, fail \in BOOLEAN : DeleteUser(p, id, fail)
    \/ CallerProceeds

SpecCollide == InitOne /\ [][NextCollide]_vars

\* ------------------------------------------------------------------------
\* GetSessionAndUser while other callers write
\* ------------------------------------------------------------------------

\* GetSessionAndUser up to the return of p.GetSession(sessionId).
GetSessionAndUserStart(p, sessionId, fail) ==
    LET squery == SelectStmt(ESCAPED_SESSION_TABLE_NAME, "id", sessionId) IN
    /\ pc = "idle"
    /\ call' = [NoCall EXCEPT !.op = "GetSessionAndUser", !.p = p,
                              !.id = sessionId]
    /\ db0' = db
    /\ IF ESCAPED_SESSION_TABLE_NAME = <<>>
       THEN /\ trace' = <<>>
            /\ ret' = Return(<<>>, <<>>, NoErr)
            /\ pc' = "done"
       ELSE /\ trace' = <<Event("Query", squery, ExecErr(db, squery, fail))>>
            /\ ret' = GetSessionReturn(db, sessionId, fail)
            /\ pc' = "GetSessionAndUser:join"
    /\ UNCHANGED <<globals, adapters, db, tx, helperVars>>

\* The INNER JOIN query and the return, on the rows committed by then.
GetSessionAndUserJoin(fail) ==
    LET query == JoinStmt(ESCAPED_SESSION_TABLE_NAME, ESCAPED_USER_TABLE_NAME,
                          call.id)
        result == Scanned(SelectInto(db, query, fail), "UserJoinSessionSchema")
    IN  /\ pc = "GetSessionAndUser:join"
        /\ trace' = Append(trace, Event("Query", query, ExecErr(db, query, fail)))
        /\ ret' = IF result = <<>> THEN Panic ELSE SessionAndUser(ret, result)
        /\ pc' = "done"
        /\ UNCHANGED <<globals, adapters, db, tx, call, db0, helperVars>>

\* The one statement of another caller's operation reaches the store
\* between the two queries of GetSessionAndUser.
AnotherCaller(stmt, fail) ==
    /\ pc = "GetSessionAndUser:join"
    /\ db' = ExecDb(db, stmt, fail)
    /\ UNCHANGED <<globals, adapters, tx, pc, call, trace, ret, db0, helperVars>>

ConcurrentSetSession(session, o, fail) ==
    LET f == WithAttributes(
                 CreatePreparedStatementHelper(SessionSchemaType,
                                               SessionFieldValues(session)),
                 session.Attributes, o) IN
    AnotherCaller(InsertStmt(ESCAPED_SESSION_TABLE_NAME, f.fields,
                             f.placeholders, f.args), fail)

ConcurrentDeleteSession(sessionId, fail) ==
    AnotherCaller(DeleteStmt(ESCAPED_SESSION_TABLE_NAME, "id", sessionId), fail)

ConcurrentDeleteUser(userId, fail) ==
    AnotherCaller(DeleteStmt(ESCAPED_USER_TABLE_NAME, "id", userId), fail)

NextJoin ==
    \/ \E p \in adapters, user \in UserValues, fail \in BOOLEAN :
          \E o \in Orders(user.Attributes) : SetUserNoKey(p, user, o, fail)
    \/ \E p \in adapters, id \in UserIds, fail \in BOOLEAN : DeleteUser(p, id, fail)
    \/ \E p \in adapters, x \in SessionValues, fail \in BOOLEAN :
          \E o \in Orders(x.Attributes) : SetSession(p, x, o, fail)
    \/ \E p \in adapters, id \in SessionIds, fail \in BOOLEAN :
          DeleteSession(p, id, fail)
    \/ \E p \in adapters, id \in SessionIds, fail \in BOOLEAN :
          GetSessionAndUserStart(p, id, fail)
    \/ \E fail \in BOOLEAN : GetSessionAndUserJoin(fail)
    \/ \E x \in SessionValues, fail \in BOOLEAN :
          \E o \in Orders(x.Attributes) : ConcurrentSetSession(x, o, fail)
    \/ \E id \in SessionIds, fail \in BOOLEAN : ConcurrentDeleteSession(id, fail)
    \/ \E id \in UserIds, fail \in BOOLEAN : ConcurrentDeleteUser(id, fail)
    \/ CallerProceeds

SpecJoin == InitOne /\ [][NextJoin]_vars

\* ------------------------------------------------------------------------
\* Two SetUser(user, key) calls at once on one adapter
\* ------------------------------------------------------------------------

\* Both calls go through p.db, the adapter's one *pgx.Conn, so the server
\* sees one session: tx is the transaction open on it, if any.  A BEGIN
\* inside a transaction and a COMMIT or ROLLBACK outside one only draw a
\* warning; after a failed statement the transaction refuses every
\* statement until it is rolled back, and COMMIT then rolls it back.
ErrInFailedTx == "ErrInFailedTx"              \* SQLSTATE 25P02
ErrTxCommitRollback == "ErrTxCommitRollback"  \* pgx.ErrTxCommitRollback

ConcurrentUsers == [ID : UserIds, Attributes : {NoMap}]
ConcurrentKeys ==
    [ID : {"k1", "k2"}, UserID : UserIds, HashedPassword : Passwords]

seqVars ==
    <<globals, adapters, pc, call, trace, ret, rtype, rvalues, hout, ename, eout>>

\* One statement sent over the connection: its error, and the committed
\* rows, the open transaction and its failed flag afterwards.
ConnExec(stmt) ==
    IF tx.open /\ aborted
    THEN [err |-> ErrInFailedTx, db |-> db, tx |-> tx, aborted |-> TRUE]
    ELSE IF tx.open
    THEN [err |-> StmtError(tx.db, stmt), db |-> db,
          tx |-> [tx EXCEPT !.db = ExecDb(tx.db, stmt, FALSE)],
          aborted |-> StmtError(tx.db, stmt) # NoErr]
    ELSE [err |-> StmtError(db, stmt), db |-> ExecDb(db, stmt, FALSE),
          tx |-> tx, aborted |-> FALSE]

\* tx, err := p.db.Begin(p.ctx)
ConcurrentBegin(c, user, key) ==
    /\ callers[c].pc = "idle"
    /\ IF tx.open /\ aborted
       THEN /\ callers' = [callers EXCEPT ![c] =
                   [pc |-> "done", user |-> <<user>>, key |-> <<key>>,
                    err |-> ErrInFailedTx]]
            /\ tx' = tx
       ELSE /\ callers' = [callers EXCEPT ![c] =
                   [pc |-> "insertUser", user |-> <<user>>, key |-> <<key>>,
                    err |-> NoErr]]
            /\ tx' = IF tx.open THEN tx ELSE [open |-> TRUE, db |-> db]
    /\ db0' = IF \A d \in Callers : callers[d].pc = "idle" THEN db ELSE db0
    /\ UNCHANGED <<db, aborted, seqVars>>

\* insertIntoTable(p.ctx, tx, ...): on an error the call returns and its
\* deferred Rollback is due.
ConcurrentInsert(c, stmt, next) ==
    LET r == ConnExec(stmt) IN
    /\ callers' = [callers EXCEPT
                     ![c].pc = IF AfterInsert(r.err, next) = "return"
                               THEN "rollback" ELSE next,
                     ![c].err = r.err]
    /\ db' = r.db
    /\ tx' = r.tx
    /\ aborted' = r.aborted
    /\ UNCHANGED <<db0, seqVars>>

ConcurrentInsertUser(c, o) ==
    LET f == UserFragment(callers[c].user[1], o) IN
    /\ callers[c].pc = "insertUser"
    /\ ConcurrentInsert(c, InsertStmt(ESCAPED_USER_TABLE_NAME, f.fields,
                                      f.placeholders, f.args), "insertKey")

ConcurrentInsertKey(c) ==
    LET f == CreatePreparedStatementHelper(KeySchemaType,
                                           KeyFieldValues(callers[c].key[1])) IN
    /\ callers[c].pc = "insertKey"
    /\ ConcurrentInsert(c, InsertStmt(ESCAPED_KEY_TABLE_NAME, f.fields,
                                      f.placeholders, f.args), "commit")

\* return tx.Commit(p.ctx)
ConcurrentCommit(c) ==
    /\ callers[c].pc = "commit"
    /\ callers' = [callers EXCEPT
                     ![c].pc = "done",
                     ![c].err = IF tx.open /\ aborted THEN ErrTxCommitRollback
                                                      ELSE NoErr]
    /\ db' = IF tx.open /\ ~aborted THEN tx.db ELSE db
    /\ tx' = NoTx
    /\ aborted' = FALSE
    /\ UNCHANGED <<db0, seqVars>>

\* defer tx.Rollback(p.ctx) after a failed INSERT.
ConcurrentRollback(c) ==
    /\ callers[c].pc = "rollback"
    /\ callers' = [callers EXCEPT ![c].pc = "done"]
    /\ db' = RolledBack(db, tx)
    /\ tx' = NoTx
    /\ aborted' = FALSE
    /\ UNCHANGED <<db0, seqVars>>

\* Both calls have returned; the callers go on to the next pair.
CallersProceed ==
    /\ \A c \in Callers : callers[c].pc = "done"
    /\ callers' = NoCallers
    /\ db0' = db
    /\ UNCHANGED <<db, tx, aborted, seqVars>>

NextConcurrent ==
    \/ \E c \in Callers, user \in ConcurrentUsers, key \in ConcurrentKeys :
          key.UserID = user.ID /\ ConcurrentBegin(c, user, key)
    \/ \E c \in Callers :
          /\ callers[c].pc = "insertUser"
          /\ \E o \in Orders(callers[c].user[1].Attributes) :
                ConcurrentInsertUser(c, o)
    \/ \E c \in Callers : ConcurrentInsertKey(c)
    \/ \E c \in Callers : ConcurrentCommit(c)
    \/ \E c \in Callers : ConcurrentRollback(c)
    \/ CallersProceed

SpecConcurrent == InitOne /\ [][NextConcurrent]_vars

\* ------------------------------------------------------------------------
\* Sessions and keys of several users
\* ------------------------------------------------------------------------

SessionsOfUsers ==
    [ID : {"s1", "s2"}, UserID : UserIds, ActiveExpires : Expiries,
     IdleExpires : Expiries, Attributes : {NoMap}]
KeysOfUsers ==
    [ID : {"k1", "k2"}, UserID : UserIds, HashedPassword : Passwords]

NextByUser ==
    \/ \E p \in adapters, x \in SessionsOfUsers, fail \in BOOLEAN :
          \E o \in Orders(x.Attributes) : SetSession(p, x, o, fail)
    \/ \E p \in adapters, key \in KeysOfUsers, fail \in BOOLEAN :
          SetKey(p, key, fail)
    \/ \E p \in adapters, id \in UserIds, fail \in BOOLEAN :
          GetSessionsByUserId(p, id, fail)
    \/ \E p \in adapters, id \in UserIds, fail \in BOOLEAN :
          GetKeysByUserId(p, id, fail)
    \/ \E p \in adapters, id \in UserIds, fail \in BOOLEAN :
          DeleteSessionsByUserId(p, id, fail)
    \/ \E p \in adapters, id \in UserIds, fail \in BOOLEAN :
          DeleteKeysByUserId(p, id, fail)
    \/ CallerProceeds

SpecByUser == InitOne /\ [][NextByUser]_vars

\* ------------------------------------------------------------------------
\* EscapeName on arbitrary identifiers
\* ------------------------------------------------------------------------

NameTokens == {"auth", "user", ".", EscapeChar}
Names == UNION {[1..n -> NameTokens] : n \in 0..MaxNameLen}

InitEscape ==
    /\ ESCAPED_USER_TABLE_NAME = <<>>
    /\ ESCAPED_KEY_TABLE_NAME = <<>>
    /\ ESCAPED_SESSION_TABLE_NAME = <<>>
    /\ adapters = {}
    /\ db = [t \in TableNames |-> {}]
    /\ tx = NoTx
    /\ pc = "idle"
    /\ call = NoCall
    /\ trace = <<>>
    /\ ret = NoRet
    /\ db0 = db
    /\ rtype = <<>>
    /\ rvalues = <<>>
    /\ hout = <<>>
    /\ ename \in Names
    /\ eout = <<>>
    /\ callers = NoCallers
    /\ aborted = FALSE

\* EscapeName(ename), then EscapeName of what that returned.
EscapeCall ==
    /\ Len(eout) < 2
    /\ eout' = Append(eout, EscapeName(IF eout = <<>> THEN ename
                                                      ELSE eout[Len(eout)]))
    /\ UNCHANGED <<globals, adapters, db, tx, pc, call, trace, ret, db0,
                   rtype, rvalues, hout, ename, callers, aborted>>

\* The next identifier is at hand.
EscapeNextName ==
    /\ Len(eout) = 2
    /\ ename' \in Names
    /\ eout' = <<>>
    /\ UNCHANGED <<globals, adapters, db, tx, pc, call, trace, ret, db0,
                   rtype, rvalues, hout, callers, aborted>>

NextEscape == EscapeCall \/ EscapeNextName

SpecEscape == InitEscape /\ [][NextEscape]_vars

\* ------------------------------------------------------------------------
\* Properties
\* ------------------------------------------------------------------------

Done == pc = "done"
IsSetUserTx == call.op = "SetUser" /\ call.key # <<>>
Nothing == Return(<<>>, <<>>, NoErr)

IsInsertInto(e, t) ==
    e.ev = "Exec" /\ e.stmt.kind = "INSERT" /\ Resolve(e.stmt.table) = t

\* The rows SetUser(user, key) is asked to write.
UserRowOf(u) ==
    [c \in Columns(TblUser) |->
        IF c = "id" THEN u.ID
        ELSE IF c \in DOMAIN u.Attributes THEN u.Attributes[c] ELSE NULL]
KeyRowOf(k) ==
    [id |-> k.ID, user_id |-> k.UserID, hashed_password |-> k.HashedPassword]

\* C1: once SetUser(user, key) with a key has returned, with or without an
\* error, the store holds both the user row and the key row of the call or
\* neither (it is as it was when the call started); and after a failed key
\* INSERT a GetUser(user.ID) finds no row.
C1_SetUserAtomic ==
    (Done /\ IsSetUserTx) =>
        /\ \/ db = db0
           \/ /\ UserRowOf(call.user[1]) \notin db0[TblUser]
              /\ KeyRowOf(call.key[1]) \notin db0[TblKey]
              /\ db = [db0 EXCEPT
                         ![TblUser] = @ \cup {UserRowOf(call.user[1])},
                         ![TblKey] = @ \cup {KeyRowOf(call.key[1])}]
        /\ (\E i \in 1..Len(trace) :
                IsInsertInto(trace[i], TblKey) /\ trace[i].err # NoErr)
           => FirstOrNil(SelectInto(db,
                  SelectStmt(EscapeName(TblUser), "id", call.id), FALSE)) = Nothing

\* C1 witness: the key INSERT failed on a duplicate key id after the user
\* INSERT had succeeded, and SetUser has returned.
C1_Witness ==
    /\ Done /\ IsSetUserTx
    /\ Len(trace) = 4
    /\ IsInsertInto(trace[2], TblUser) /\ trace[2].err = NoErr
    /\ IsInsertInto(trace[3], TblKey) /\ trace[3].err = ErrUnique

\* C2: in SetUser(user, key) the store sees Begin, then the user INSERT,
\* then the key INSERT, then Commit: the key INSERT only after the user
\* INSERT succeeded, Commit only after both INSERTs succeeded.
C2_SetUserOrder ==
    IsSetUserTx =>
        \A i \in 1..Len(trace) :
            /\ trace[i].ev \in {"Begin", "Exec", "Commit", "Rollback"}
            /\ trace[i].ev = "Begin" <=> i = 1
            /\ trace[i].ev = "Exec" =>
                  \/ i = 2 /\ IsInsertInto(trace[i], TblUser)
                           /\ trace[1].err = NoErr
                  \/ i = 3 /\ IsInsertInto(trace[i], TblKey)
                           /\ IsInsertInto(trace[2], TblUser)
                           /\ trace[2].err = NoErr
            /\ trace[i].ev = "Commit" =>
                  /\ i = 4
                  /\ IsInsertInto(trace[2], TblUser) /\ trace[2].err = NoErr
                  /\ IsInsertInto(trace[3], TblKey) /\ trace[3].err = NoErr

\* C2 witness: a SetUser(user, key) that committed.
C2_Witness ==
    /\ Done /\ IsSetUserTx
    /\ Len(trace) = 5 /\ trace[4].ev = "Commit" /\ trace[4].err = NoErr

\* C3: when the user INSERT or the key INSERT of SetUser(user, key) fails,
\* Rollback is called before SetUser returns and SetUser returns the error
\* of the failed INSERT, also when Rollback fails; and no returned SetUser
\* leaves its transaction open.
C3_SetUserRollback ==
    /\ pc \in {"idle", "done"} => ~tx.open
    /\ (Done /\ IsSetUserTx) =>
          \A i \in 1..Len(trace) :
              (trace[i].ev = "Exec" /\ trace[i].err # NoErr) =>
                  /\ Len(trace) = i + 1
                  /\ trace[i + 1].ev = "Rollback"
                  /\ ret.err = trace[i].err
                  /\ ~ret.panic

\* C3 witness: an INSERT failed on a duplicate id and the rollback failed too.
C3_Witness ==
    /\ Done /\ IsSetUserTx
    /\ Len(trace) >= 3
    /\ trace[Len(trace)].ev = "Rollback" /\ trace[Len(trace)].err = ErrConn
    /\ trace[Len(trace) - 1].err = ErrUnique

SessionOps ==
    {"GetSession", "GetSessionsByUserId", "SetSession", "UpdateSession",
     "DeleteSession", "DeleteSessionsByUserId", "GetSessionAndUser"}

\* C4: on an adapter constructed with Tables.Session = "", every session
\* operation returns nil/empty with a nil error and asks nothing of the
\* database handle.
C4_SessionDisabledClaim ==
    (Done /\ call.op \in SessionOps /\ call.p.Session = <<>>) =>
        ret = Nothing /\ trace = <<>>

FailedAt(i) ==
    trace[i].ev \in {"Begin", "Exec", "Query", "Commit"} /\ trace[i].err # NoErr

\* C5: when the store fails a statement of an operation, read or write,
\* the operation returns that error; a failed query is never reported as
\* a (nil, nil) not-found result.
C5_ErrorPropagatedClaim ==
    Done =>
        \A i \in 1..Len(trace) :
            (FailedAt(i) /\ \A j \in 1..(i - 1) : ~FailedAt(j)) =>
                ~ret.panic /\ ret.err = trace[i].err

ReadTable(op) ==
    IF op = "GetUser" THEN TblUser
    ELSE IF op \in {"GetSession", "GetSessionsByUserId"} THEN TblSession
    ELSE TblKey
ReadColumn(op) ==
    IF op \in {"GetUser", "GetSession", "GetKey"} THEN "id" ELSE "user_id"
PlainReads ==
    {"GetUser", "GetSession", "GetKey", "GetSessionsByUserId", "GetKeysByUserId"}

\* C6: GetUser, GetSession, GetKey, GetSessionsByUserId and GetKeysByUserId
\* called with an id that matches no row return nil (a nil list) and a nil
\* error, and do not panic, whatever else the store holds.
C6_NotFound ==
    (/\ Done /\ call.op \in PlainReads
     /\ RowsWhere(db, ReadTable(call.op), ReadColumn(call.op), call.id) = {})
    => ret = Nothing

\* C6 witness: GetUser ran its query without error on a user table that
\* holds rows, none of them with the id asked for.
C6_Witness ==
    /\ Done /\ call.op = "GetUser"
    /\ db[TblUser] # {}
    /\ RowsWhere(db, TblUser, "id", call.id) = {}
    /\ Len(trace) = 1 /\ trace[1].err = NoErr

\* C7: with a session table configured, GetSessionAndUser of a session id
\* that names no session returns (nil, nil, nil) and does not panic.
C7_JoinNotFoundClaim ==
    (/\ Done /\ call.op = "GetSessionAndUser"
     /\ call.p.Session # <<>>
     /\ RowsWhere(db, TblSession, "id", call.id) = {})
    => ret = Nothing

\* C8: UpdateUser, UpdateSession and UpdateKey called with an empty map
\* send no UPDATE with an empty SET clause to the store.
C8_EmptyUpdateClaim ==
    (Done /\ call.op \in {"UpdateUser", "UpdateSession", "UpdateKey"}
          /\ call.m = NoMap) =>
        \A i \in 1..Len(trace) :
            ~(trace[i].stmt.kind = "UPDATE" /\ Len(trace[i].stmt.set) = 0)

OwnTables(p) == {EscapeName(p.User), EscapeName(p.Key), EscapeName(p.Session)}

\* C9: every statement of an operation names tables given to the
\* constructor of the adapter the operation was called on, whichever
\* adapters were constructed before or after it.
C9_OwnTablesClaim ==
    \A i \in 1..Len(trace) :
        trace[i].stmt.kind # "NONE" =>
            /\ trace[i].stmt.table \in OwnTables(call.p)
            /\ trace[i].stmt.kind = "JOIN" =>
                   trace[i].stmt.jtable \in OwnTables(call.p)

Tagged(t) == t # "" /\ t # "-"
TaggedFields(rt) ==
    LET Keep(i) == Tagged(rt[i]) IN SelectSeq([i \in 1..Len(rt) |-> i], Keep)

\* C10: for every record type the helper returns columns, placeholders and
\* args of equal length holding exactly the db-tagged fields in declaration
\* order, entry i of each describing the same field, and the placeholder
\* at output index i (0-based) is $(i+1), wherever untagged fields stand.
C10_HelperClaim ==
    hout # <<>> =>
        LET h == hout[1]
            ix == TaggedFields(rtype)
        IN  /\ Len(h.fields) = Len(ix)
            /\ Len(h.placeholders) = Len(ix)
            /\ Len(h.args) = Len(ix)
            /\ \A k \in 1..Len(ix) :
                   /\ h.fields[k] = EscapeName(<<rtype[ix[k]]>>)
                   /\ h.args[k] = rvalues[ix[k]]
                   /\ h.placeholders[k] = <<"$", k>>

IsUpdate(ops) == Done /\ call.op \in ops /\ call.m # NoMap

\* C11: UpdateUser and UpdateSession with a map of n >= 1 columns execute
\* exactly one statement and open no transaction; the UPDATE gives the
\* column at position k the placeholder $k, the placeholders are pairwise
\* distinct, argument k is the value the map holds for the column at
\* position k in whatever order the map was visited, every key of the map
\* is assigned, the WHERE predicate is id = $(n+1) and the id is argument n+1.
C11_UpdateStatement ==
    IsUpdate({"UpdateUser", "UpdateSession"}) =>
        LET n == Cardinality(DOMAIN call.m) IN
        /\ Len(trace) = 1
        /\ trace[1].ev = "Exec" /\ trace[1].stmt.kind = "UPDATE"
        /\ ~tx.open
        /\ LET s == trace[1].stmt IN
           /\ Len(s.set) = n
           /\ \A k \in 1..n :
                  /\ s.set[k].ph = <<"$", k>>
                  /\ ColumnOf(s.set[k].col) \in DOMAIN call.m
                  /\ s.args[k] = call.m[ColumnOf(s.set[k].col)]
           /\ \A j, k \in 1..n : s.set[j].ph = s.set[k].ph => j = k
           /\ \A c \in DOMAIN call.m :
                  \E k \in 1..n : ColumnOf(s.set[k].col) = c
           /\ s.whereph = <<"$", n + 1>>
           /\ Len(s.args) = n + 1
           /\ s.args[n + 1] = call.id

\* C11 witness: UpdateSession with two columns of different values, the
\* map visited idle_expires first, has updated the row of an existing session.
C11_Witness ==
    /\ IsUpdate({"UpdateSession"})
    /\ Cardinality(DOMAIN call.m) = 2
    /\ call.m["active_expires"] # call.m["idle_expires"]
    /\ ColumnOf(trace[1].stmt.set[1].col) = "idle_expires"
    /\ ret.err = NoErr
    /\ RowsWhere(db0, TblSession, "id", call.id) # {}
    /\ db # db0

\* The value a user returned by GetUser shows for column c.
Shown(user, c) ==
    IF c = "id" THEN user.ID
    ELSE IF c \in DOMAIN user.Attributes THEN user.Attributes[c]
    ELSE NULL

Succeeded(op) == Done /\ call.op = op /\ ret.err = NoErr /\ ~ret.panic

\* C12: after UpdateUser(id, m) has succeeded on an existing user,
\* GetUser(id) shows every column named in m with its new value and every
\* other column as GetUser showed it before, and the rows of all other
\* users are unchanged.
C12_UpdateUserClaim ==
    (Succeeded("UpdateUser") /\ RowsWhere(db0, TblUser, "id", call.id) # {}) =>
        LET before == GetUserReturn(db0, call.id, FALSE)
            after == GetUserReturn(db, call.id, FALSE)
        IN  /\ after.err = NoErr /\ after.val # <<>>
            /\ \A c \in DOMAIN call.m : Shown(after.val[1], c) = call.m[c]
            /\ \A c \in Columns(TblUser) \ DOMAIN call.m :
                   Shown(after.val[1], c) = Shown(before.val[1], c)
            /\ {r \in db[TblUser] : r.id # call.id}
                   = {r \in db0[TblUser] : r.id # call.id}

\* C13: after SetUser(u, nil) or SetUser(u, key) has succeeded on a store
\* that held no user with id u.ID, GetUser(u.ID) returns a user equal to u
\* field for field, with attributes or without.
C13_RoundTripClaim ==
    (Succeeded("SetUser") /\ RowsWhere(db0, TblUser, "id", call.id) = {}) =>
        GetUserReturn(db, call.id, FALSE) = Return(<<call.user[1]>>, <<>>, NoErr)

\* C14: once a user and a session of that user are stored (SetUser(u, key)
\* and SetSession(s) with s.UserID = u.ID have succeeded),
\* GetSessionAndUser(s.ID), the store being reachable, returns a nil
\* error, a session whose ID is s.ID and a user projection whose ID is the
\* UserID of the session returned.
C14_JoinedRead ==
    (/\ Done /\ call.op = "GetSessionAndUser"
     /\ \A i \in 1..Len(trace) : trace[i].err # ErrConn
     /\ \E x \in db[TblSession] :
            x.id = call.id /\ \E u \in db[TblUser] : u.id = x.user_id)
    => /\ ret.err = NoErr /\ ~ret.panic
       /\ Len(ret.val) = 1 /\ ret.val[1].ID = call.id
       /\ Len(ret.user) = 1 /\ ret.user[1].ID = ret.val[1].UserID

\* C14 witness: GetSessionAndUser has returned the session of a user who
\* has a key, while another user is stored as well.
C14_Witness ==
    /\ Done /\ call.op = "GetSessionAndUser"
    /\ ret.val # <<>> /\ ret.user # <<>>
    /\ RowsWhere(db, TblKey, "user_id", ret.val[1].UserID) # {}
    /\ Cardinality(db[TblUser]) = 2

\* What the Get of one entity returns for the committed rows d.
ReadReturn(get, d, id, fail) ==
    IF get = "GetUser" THEN GetUserReturn(d, id, fail)
    ELSE IF get = "GetSession" THEN GetSessionReturn(d, id, fail)
    ELSE GetKeyReturn(d, id, fail)
GetOf(op) ==
    IF op = "DeleteUser" THEN "GetUser"
    ELSE IF op = "DeleteSession" THEN "GetSession" ELSE "GetKey"
IdsOf(get) ==
    IF get = "GetUser" THEN UserIds
    ELSE IF get = "GetSession" THEN SessionIds ELSE KeyIds

\* Once DeleteUser, DeleteSession or DeleteKey has returned nil, the
\* matching Get for the same id returns (nil, nil).
DeletedIsGone ==
    \A op \in {"DeleteUser", "DeleteSession", "DeleteKey"} :
        Succeeded(op) =>
            \A fail \in BOOLEAN :
                ReadReturn(GetOf(op), db, call.id, fail) = Nothing

\* A step after which the Get of an id no longer returns (nil, nil) has
\* made the store accept an INSERT of a row with that id.
GoneUntilInserted ==
    \A get \in {"GetUser", "GetSession", "GetKey"} :
        \A id \in IdsOf(get) :
            (/\ ReadReturn(get, db, id, FALSE) = Nothing
             /\ (ReadReturn(get, db, id, FALSE) # Nothing)')
            => \E i \in 1..Len(trace') :
                   /\ IsInsertInto(trace'[i], ReadTable(get))
                   /\ trace'[i].err = NoErr
                   /\ InsertedRow(ReadTable(get), trace'[i].stmt).id = id

OneDelete(t) ==
    /\ Len(trace) = 1
    /\ trace[1].ev = "Exec" /\ trace[1].stmt.kind = "DELETE"
    /\ Resolve(trace[1].stmt.table) = t
    /\ \A other \in TableNames \ {t} : db[other] = db0[other]

\* C16: DeleteUser(id) issues a single DELETE, on the user table, and
\* leaves every row of the key table and of the session table as it was,
\* the rows with user_id = id included; DeleteSession and DeleteKey
\* likewise issue one DELETE and change rows of their own table only.
C16_DeleteFrame ==
    /\ (Done /\ call.op = "DeleteUser") => OneDelete(TblUser)
    /\ (Done /\ call.op = "DeleteSession") => OneDelete(TblSession)
    /\ (Done /\ call.op = "DeleteKey") => OneDelete(TblKey)

\* C16 witness: DeleteUser has deleted a user who has a key and a session.
C16_Witness ==
    /\ Succeeded("DeleteUser")
    /\ db # db0
    /\ RowsWhere(db, TblKey, "user_id", call.id) # {}
    /\ RowsWhere(db, TblSession, "user_id", call.id) # {}

HasSeparator(x) == \E i \in 1..Len(x) : x[i] = "."

\* y is x between one double quote on each side.
Wrapped(x, y) ==
    /\ Len(y) = Len(x) + 2
    /\ y[1] = "\"" /\ y[Len(y)] = "\""
    /\ \A i \in 1..Len(x) : y[i + 1] = x[i]

EscapeResult ==
    /\ Len(eout) >= 1 =>
          IF HasSeparator(ename) THEN eout[1] = ename
                                 ELSE Wrapped(ename, eout[1])
    /\ Len(eout) = 2 =>
          IF HasSeparator(eout[1]) THEN eout[2] = eout[1]
                                   ELSE Wrapped(eout[1], eout[2])

\* C17: EscapeName(x) returns x unchanged when x contains the separator
\* ".", and x between exactly one double quote on each side otherwise; a
\* call of it changes nothing of the adapter or of the store.
C17_EscapeName ==
    []EscapeResult
    /\ [][eout' # eout => UNCHANGED <<globals, adapters, db, tx>>]_vars

\* C17 witness: EscapeName has returned for a name without separator that
\* holds a quote, and for a schema-qualified name.
C17_Witness ==
    /\ Len(eout) >= 1
    /\ \/ ~HasSeparator(ename) /\ Contains(ename, EscapeChar)
       \/ ename = <<"auth", ".", "user">>

\* C18: for an identifier x without ".", EscapeName(EscapeName(x)) differs
\* from EscapeName(x); for an x with ".", the two are equal.
C18_EscapeTwice ==
    Len(eout) = 2 =>
        IF HasSeparator(ename) THEN eout[2] = eout[1] ELSE eout[2] # eout[1]

\* C18 witness: a name without separator, not empty, has been escaped twice.
C18_Witness ==
    /\ Len(eout) = 2
    /\ ~HasSeparator(ename)
    /\ ename # <<>>

\* C19: UpdateKey with a map of n >= 2 columns sends one UPDATE whose SET
\* clause uses the n pairwise distinct placeholders $1..$n, each bound to
\* the value of its own column, with WHERE id = $(n+1) bound to keyId, so
\* that after a successful UpdateKey every column named in the map holds
\* its own new value.
C19_UpdateKeyClaim ==
    (IsUpdate({"UpdateKey"}) /\ Cardinality(DOMAIN call.m) >= 2) =>
        LET n == Cardinality(DOMAIN call.m) IN
        /\ Len(trace) = 1
        /\ trace[1].ev = "Exec" /\ trace[1].stmt.kind = "UPDATE"
        /\ LET s == trace[1].stmt IN
           /\ Len(s.set) = n
           /\ \A k \in 1..n :
                  /\ s.set[k].ph = <<"$", k>>
                  /\ s.args[k] = call.m[ColumnOf(s.set[k].col)]
           /\ \A j, k \in 1..n : s.set[j].ph = s.set[k].ph => j = k
           /\ s.whereph = <<"$", n + 1>>
           /\ s.args[n + 1] = call.id
        /\ ret.err = NoErr =>
              \A r \in db[TblKey] :
                  r.id = call.id => \A c \in DOMAIN call.m : r[c] = call.m[c]

\* The user INSERT s of SetUser(u, ...): the tagged column id, then one
\* column per attribute; placeholders distinct and exactly $1..$m for the
\* m arguments; argument k the value of column k.
UserInsertOk(s, u) ==
    LET m == Len(s.args) IN
    /\ m = 1 + Cardinality(DOMAIN u.Attributes)
    /\ Len(s.fields) = m /\ Len(s.placeholders) = m
    /\ ColumnOf(s.fields[1]) = "id" /\ s.args[1] = u.ID
    /\ \A k \in 2..m :
           /\ ColumnOf(s.fields[k]) \in DOMAIN u.Attributes
           /\ s.args[k] = u.Attributes[ColumnOf(s.fields[k])]
    /\ \A c \in DOMAIN u.Attributes :
           \E k \in 2..m : ColumnOf(s.fields[k]) = c
    /\ \A j, k \in 1..m : s.placeholders[j] = s.placeholders[k] => j = k
    /\ {s.placeholders[k] : k \in 1..m} = {<<"$", i>> : i \in 1..m}

\* C20: in SetUser, without a key and inside the transaction alike, the
\* user INSERT lists the db-tagged columns and then one column per entry
\* of user.Attributes; its placeholders are pairwise distinct and exactly
\* $1..$m for m arguments, and argument k is the value of column k.
C20_UserInsert ==
    call.op = "SetUser" =>
        \A i \in 1..Len(trace) :
            (trace[i].ev = "Exec" /\ trace[i].stmt.kind = "INSERT"
             /\ trace[i].stmt.table = ESCAPED_USER_TABLE_NAME)
            => UserInsertOk(trace[i].stmt, call.user[1])

\* C20 witness: the transaction of SetUser(user, key) has sent the INSERT
\* of a user with two attributes, the map visited email first.
C20_Witness ==
    /\ IsSetUserTx /\ Len(trace) >= 2
    /\ trace[2].ev = "Exec" /\ trace[2].stmt.kind = "INSERT"
    /\ Len(trace[2].stmt.fields) = 3
    /\ ColumnOf(trace[2].stmt.fields[2]) = "email"

\* The value of the field of typed user u that is tagged with column c.
TypedValue(u, c) == IF c = "id" THEN u.ID ELSE u.Username

\* Row r0 with the non-zero fields of partialUser u written over it.
NonZeroOver(r0, u) ==
    [c \in DOMAIN r0 |->
        IF TypedValue(u, c) = "" THEN r0[c] ELSE TypedValue(u, c)]

\* C21: in the revision where UpdateUser takes a typed record, the SET
\* clause of UpdateUser(id, partialUser) holds only the db-tagged fields
\* whose value is not the zero value, so after a successful update the row
\* keeps its stored value in every column whose field was left zero (the
\* id under User{Username: x}) and holds the new value in the others.
C21_TypedUpdateClaim ==
    (Done /\ call.op = "UpdateUserTyped") =>
        /\ \A k \in 1..Len(trace[1].stmt.set) : trace[1].stmt.args[k] # ""
        /\ ret.err = NoErr =>
              \A r0 \in RowsWhere(db0, TblUser, "id", call.id) :
                  db[TblUser] = (db0[TblUser] \ {r0})
                                   \cup {NonZeroOver(r0, call.user[1])}

\* INSERT s names column c exactly twice, once with value v of the tagged
\* field and once with value w of the attribute.
NamedTwice(s, c, v, w) ==
    /\ Cardinality({k \in 1..Len(s.fields) : ColumnOf(s.fields[k]) = c}) = 2
    /\ \E j, k \in 1..Len(s.fields) :
           /\ j < k
           /\ ColumnOf(s.fields[j]) = c /\ s.args[j] = v
           /\ ColumnOf(s.fields[k]) = c /\ s.args[k] = w
    /\ Len(s.args) = Len(s.fields)

\* C22: when a key of user.Attributes (session.Attributes) is the column
\* name of a db-tagged field, SetUser (SetSession) does not reject the
\* call and drops neither value: the INSERT it sends names that column
\* twice, with the field's value and with the attribute's value.
C22_DuplicateColumn ==
    /\ (call.op = "SetUser" /\ "id" \in DOMAIN call.user[1].Attributes) =>
          LET u == call.user[1] IN
          /\ (Done /\ call.key = <<>>) =>
                /\ Len(trace) = 1 /\ trace[1].ev = "Exec"
                /\ NamedTwice(trace[1].stmt, "id", u.ID, u.Attributes["id"])
                /\ ret.err = trace[1].err
          /\ (call.key # <<>> /\ Len(trace) >= 2) =>
                /\ trace[2].ev = "Exec"
                /\ NamedTwice(trace[2].stmt, "id", u.ID, u.Attributes["id"])
    /\ (Done /\ call.op = "SetSession"
             /\ "user_id" \in DOMAIN call.session[1].Attributes) =>
          LET x == call.session[1] IN
          /\ Len(trace) = 1 /\ trace[1].ev = "Exec"
          /\ NamedTwice(trace[1].stmt, "user_id", x.UserID,
                        x.Attributes["user_id"])
          /\ ret.err = trace[1].err

\* C22 witness: SetSession has sent the INSERT of a session whose
\* attribute user_id differs from its UserID, and the store has refused it.
C22_Witness ==
    /\ Done /\ call.op = "SetSession"
    /\ "user_id" \in DOMAIN call.session[1].Attributes
    /\ call.session[1].Attributes["user_id"] # call.session[1].UserID
    /\ Len(trace) = 1 /\ trace[1].err = ErrSQL

\* C23: however GetSessionAndUser(sid) interleaves with SetSession,
\* DeleteSession and DeleteUser calls of other callers on sid or its user,
\* it returns a non-nil session with a non-nil user or both nil, never one
\* without the other, and it does not panic.
C23_JoinConsistentClaim ==
    (Done /\ call.op = "GetSessionAndUser") =>
        /\ ~ret.panic
        /\ ret.val = <<>> <=> ret.user = <<>>

BothReturned == \A c \in Callers : callers[c].pc = "done"
SameUser == callers["A"].user[1].ID = callers["B"].user[1].ID

\* C24: when two SetUser(user, key) calls with the same user id have run
\* at once, at most one of them has committed (returned nil), a call that
\* has not committed has returned the uniqueness error of the store, and
\* no key row written by a call that lost remains in the store.
C24_ConcurrentSetUserClaim ==
    (BothReturned /\ SameUser) =>
        /\ \E c \in Callers : callers[c].err # NoErr
        /\ \A c \in Callers :
               callers[c].err # NoErr =>
                   /\ callers[c].err = ErrUnique
                   /\ \/ KeyRowOf(callers[c].key[1]) \notin db[TblKey]
                      \/ KeyRowOf(callers[c].key[1]) \in db0[TblKey]
                      \/ \E w \in Callers :
                            /\ callers[w].err = NoErr
                            /\ callers[w].key = callers[c].key

NilList == Return(<<>>, <<>>, NoErr)
OfOthers(d, t, userId) == {r \in d[t] : r.user_id # userId}

\* C25: after DeleteSessionsByUserId(u) has returned nil,
\* GetSessionsByUserId(u) returns a nil list with a nil error, and the
\* sessions of every other user are the rows they were, read back the
\* same; likewise for DeleteKeysByUserId(u) and GetKeysByUserId(u).
C25_DeleteByUser ==
    /\ Succeeded("DeleteSessionsByUserId") =>
          /\ \A fail \in BOOLEAN :
                GetSessionsByUserIdReturn(db, call.id, fail) = NilList
          /\ OfOthers(db, TblSession, call.id) = OfOthers(db0, TblSession, call.id)
          /\ \A other \in UserIds \ {call.id} :
                GetSessionsByUserIdReturn(db, other, FALSE)
                    = GetSessionsByUserIdReturn(db0, other, FALSE)
    /\ Succeeded("DeleteKeysByUserId") =>
          /\ \A fail \in BOOLEAN :
                GetKeysByUserIdReturn(db, call.id, fail) = NilList
          /\ OfOthers(db, TblKey, call.id) = OfOthers(db0, TblKey, call.id)
          /\ \A other \in UserIds \ {call.id} :
                GetKeysByUserIdReturn(db, other, FALSE)
                    = GetKeysByUserIdReturn(db0, other, FALSE)

\* C25 witness: DeleteSessionsByUserId has deleted the session of one user
\* while another user has a session and both have keys.
C25_Witness ==
    /\ Succeeded("DeleteSessionsByUserId")
    /\ RowsWhere(db0, TblSession, "user_id", call.id) # {}
    /\ OfOthers(db, TblSession, call.id) # {}
    /\ RowsWhere(db, TblKey, "user_id", call.id) # {}

====
